---- MODULE Spec2Model ----
(***************************************************************************)
(* Model of internal/gdrive/util.go: the column codec (columnToLetter,     *)
(* letterToColumn), the header write (updateSheetHead) and the find-or-    *)
(* create resolution of a title to a spreadsheet (getSheet, LogRow).       *)
(*                                                                         *)
(* A Go string is modelled as a sequence of one-character strings, so that *)
(* prepending, indexing and length are the operations the code performs.   *)
(***************************************************************************)
EXTENDS Integers, Sequences, FiniteSets, TLC

\* ------------------------------------------------------------------ bounds

\* Largest column number given to the codec.
MaxColumn == 710
\* Number of distinct field names a row may use.
NumFields == 2
\* Capacity of the remote folder (files it can hold before a create fails).
MaxFiles == 2

\* ------------------------------------------------------------ column codec

Alphabet ==
  << "A", "B", "C", "D", "E", "F", "G", "H", "I", "J", "K", "L", "M",
     "N", "O", "P", "Q", "R", "S", "T", "U", "V", "W", "X", "Y", "Z" >>

\* string(c) for a code point c in 'A'..'Z' (util.go:242, string(temp+65)).
Chr(c) == Alphabet[c - 64]

\* int(s[i]) for a one-character string of A..Z (util.go:252, int(letter[i])).
Ord(ch) == CHOOSE c \in 65..90 : Alphabet[c - 64] = ch

\* int(math.Pow(26, float64(e))), exact for the exponents reached here.
RECURSIVE Pow26(_)
Pow26(e) == IF e = 0 THEN 1 ELSE 26 * Pow26(e - 1)

\* The loop of columnToLetter: one iteration per call.
RECURSIVE columnToLetterLoop(_, _)
columnToLetterLoop(column, letter) ==
  IF column > 0
    THEN LET temp == (column - 1) % 26
         IN  columnToLetterLoop((column - temp - 1) \div 26,
                                <<Chr(temp + 65)>> \o letter)
    ELSE letter

\* An encoder that takes column % 26 as the digit, without the shift by one.
columnToLetterNoShift(column) ==
  LET RECURSIVE loop(_, _)
      loop(c, letter) ==
        IF c > 0
          THEN LET temp == c % 26
               IN  loop((c - temp) \div 26, <<Chr(temp + 65)>> \o letter)
          ELSE letter
  IN  loop(column, <<>>)

columnToLetter(column) == columnToLetterLoop(column, <<>>)

\* The loop of letterToColumn, i counting from 0 as in the code.
RECURSIVE letterToColumnLoop(_, _, _)
letterToColumnLoop(letter, i, column) ==
  IF i < Len(letter)
    THEN letterToColumnLoop(letter, i + 1,
           column + (Ord(letter[i + 1]) - 64) * Pow26(Len(letter) - i - 1))
    ELSE column

\* A decoder that takes 'A' as digit 0 instead of digit 1.
letterToColumnZeroBased(letter) ==
  LET RECURSIVE loop(_, _)
      loop(i, column) ==
        IF i < Len(letter)
          THEN loop(i + 1,
                 column + (Ord(letter[i + 1]) - 65) * Pow26(Len(letter) - i - 1))
          ELSE column
  IN  loop(0, 0)

letterToColumn(letter) == letterToColumnLoop(letter, 0, 0)

\* strconv.Itoa for a non-negative integer.
Digits == << "0", "1", "2", "3", "4", "5", "6", "7", "8", "9" >>

RECURSIVE Itoa(_)
Itoa(n) ==
  IF n < 10 THEN <<Digits[n + 1]>>
            ELSE Itoa(n \div 10) \o <<Digits[(n % 10) + 1]>>

\* --------------------------------------------------------------- the data

\* The goroutines that may call LogRow: the program is one thread of control
\* ("main"); "other" is a second caller, idle in the sequential program.
Procs == {"main", "other"}
SeqProcs == {"main"}

Titles == {"t1", "t2"}
Descriptions == {"D"}

FieldLetters == << "a", "b", "c", "d", "e" >>
FieldNames == {FieldLetters[i] : i \in 1..NumFields}
RowValues == {<<"v">>}

\* map[string][]interface{}: a row maps each of its field names to values.
Rows == UNION {[K -> RowValues] : K \in SUBSET FieldNames}

\* The nil *sheets.Spreadsheet (util.go:110); a handle is its SpreadsheetId.
NilSheet == 0

\* error values: nil, a failure of a remote call, the error of util.go:158.
NoErr == [kind |-> "nil", count |-> 0, name |-> ""]
RemoteErr(op) == [kind |-> op, count |-> 0, name |-> ""]
AmbiguousErr(n, t) == [kind |-> "ambiguous", count |-> n, name |-> t]

\* The content of a cell range nobody has written through this program.
NoHeader == [range |-> <<>>, values |-> <<>>]

\* ------------------------------------------------------------ pure helpers

\* for k := range data: every order of the keys is a possible iteration.
KeyOrders(K) ==
  {s \in [1..Cardinality(K) -> K] : \A i, j \in 1..Cardinality(K) : s[i] = s[j] => i = j}

\* values := [][]interface{}{{description}, keys}
HeaderValuesNoKeys(description, keys) == << <<description>>, <<>> >>

\* A header write that also sends a row of values below the header.
HeaderValuesWithRow(description, keys) == << <<description>>, keys, <<"v">> >>

HeaderValues(description, keys) == << <<description>>, keys >>

\* "A1:" + columnToLetter(1+len(keys)) + strconv.Itoa(len(values))
HeaderRangeNoPlusOne(keys, values) ==
  <<"A", "1", ":">> \o columnToLetter(Len(keys)) \o Itoa(Len(values))

HeaderRange(keys, values) ==
  <<"A", "1", ":">> \o columnToLetter(1 + Len(keys)) \o Itoa(Len(values))

\* updateSheetHead's result for the error e of Values.Update(...).Do().
updateSheetHeadSwallow(e) == NoErr

updateSheetHeadResult(e) == IF e # NoErr THEN e ELSE NoErr

\* sheet, exists := gDrive.sheets[title]
ExistsAlways(cache, t) == TRUE

ExistsInverted(cache, t) == t \notin DOMAIN cache

Exists(cache, t) == t \in DOMAIN cache

Lookup(cache, t) == IF t \in DOMAIN cache THEN cache[t] ELSE NilSheet

\* Files.List().Q("name = '<title>' and '<folderID>' in parents"): the ids of
\* the folder's files with that name, in id order.
RECURSIVE ListMatches(_, _)
ListMatches(folder, t) ==
  IF folder = <<>> THEN <<>>
  ELSE LET n == Len(folder)
           rest == ListMatches(SubSeq(folder, 1, n - 1), t)
       IN  IF folder[n] = t THEN Append(rest, n) ELSE rest

\* The three-way branch on len(files.Files) (util.go:132, 151, 157).
BranchNoCreate(n) == IF n = 1 THEN "one" ELSE "many"
BranchCreateUnlessMany(n) == IF n <= 1 THEN "zero" ELSE "many"
BranchFirstWins(n) == IF n = 0 THEN "zero" ELSE "one"

Branch(n) == IF n = 0 THEN "zero" ELSE IF n = 1 THEN "one" ELSE "many"

\* ------------------------------------------------------------------- state

VARIABLES
  driveFiles,   \* the remote folder: driveFiles[id] is the name of file id
  headers,      \* headers[id]: the last range and values written to file id
  sheets,       \* gDrive.sheets: title -> handle
  pc,           \* pc[p]: where caller p stands in LogRow/getSheet
  title,        \* the arguments of p's current call
  description,
  data,
  files,        \* files.Files of p's listing (ids)
  fileId,       \* file.Id / files.Files[0].Id: the file p works on
  sheet,        \* the handle getSheet returned to p
  err,          \* the error LogRow returned to p
  calls,        \* the remote calls p issued in its current call, in order
  cacheAtCall,  \* gDrive.sheets as it was when p's current call began
  resolved,     \* resolved[t]: the handle of the first successful resolve of t
  resolvedAtCall, \* resolved[title] as it was when p's current call began
  lastKeys,     \* lastKeys[t]: the key set of the last successful LogRow of t
  retryOf,      \* the file p's previous call created before it failed, when
                \* p's current call is for the same title
  cpc,          \* the codec run: "input", "encoded", "decoded"
  column,       \* its input
  letter,       \* columnToLetter(column)
  back,         \* letterToColumn(letter)
  spc,          \* where Create stands
  credsRead,    \* the outcome of reading credentials.json: "no", "ok", "failed"
  tokenFile,    \* the content of token.json
  tokLoad,      \* the outcome of tokenFromFile: "no", "ok", "failed"
  tok,          \* the token getClient holds
  client,       \* the token of the client getClient returned, or "none"
  folders,      \* the remote folders: folders[id] is the name of folder id
  folderList,   \* files.Files of Create's listing
  folderID,     \* gDrive.folderID (0: not set)
  slog,         \* the remote calls Create issued, in order
  fatal         \* the message of the log.Fatalf that ended Create, or ""

rvars == << driveFiles, headers, sheets, pc, title, description, data, files,
            fileId, sheet, err, calls, cacheAtCall, resolved, resolvedAtCall,
            lastKeys, retryOf >>
cvars == << cpc, column, letter, back >>
svars == << spc, credsRead, tokenFile, tokLoad, tok, client, folders,
            folderList, folderID, slog, fatal >>
vars == << rvars, cvars, svars >>

\* One remote call as the log keeps it.
Call(op, ok, name, id, range, values) ==
  [op |-> op, ok |-> ok, name |-> name, id |-> id, range |-> range, values |-> values]

\* The state Create leaves behind (util.go:227-231: the sheets map is not set),
\* over a folder that other clients may have filled already.
InitResolver ==
  /\ driveFiles \in UNION {[1..n -> Titles] : n \in 0..MaxFiles}
  /\ headers = [id \in 1..MaxFiles |-> NoHeader]
  /\ sheets = <<>>
  /\ pc = [p \in Procs |-> "idle"]
  /\ title = [p \in Procs |-> "t1"]
  /\ description = [p \in Procs |-> "D"]
  /\ data = [p \in Procs |-> <<>>]
  /\ files = [p \in Procs |-> <<>>]
  /\ fileId = [p \in Procs |-> 0]
  /\ sheet = [p \in Procs |-> NilSheet]
  /\ err = [p \in Procs |-> NoErr]
  /\ calls = [p \in Procs |-> <<>>]
  /\ cacheAtCall = [p \in Procs |-> <<>>]
  /\ resolved = [t \in Titles |-> {}]
  /\ resolvedAtCall = [p \in Procs |-> {}]
  /\ lastKeys = [t \in Titles |-> {}]
  /\ retryOf = [p \in Procs |-> {}]

IdleCodec ==
  /\ cpc = "off"
  /\ column = 0
  /\ letter = <<>>
  /\ back = 0

\* Create is not running (it has returned the GDrive the callers use).
IdleStartup ==
  /\ spc = "off"
  /\ credsRead = "no"
  /\ tokenFile = "missing"
  /\ tokLoad = "no"
  /\ tok = "none"
  /\ client = "none"
  /\ folders = <<>>
  /\ folderList = <<>>
  /\ folderID = 0
  /\ slog = <<>>
  /\ fatal = ""

Init == InitResolver /\ IdleCodec /\ IdleStartup

\* LogRow returns e to p, getSheet having returned sh (util.go:166-176).
Return(p, t, row, sh, e) ==
  /\ pc' = [pc EXCEPT ![p] = "done"]
  /\ sheet' = [sheet EXCEPT ![p] = sh]
  /\ err' = [err EXCEPT ![p] = e]
  /\ resolved' = IF e = NoErr /\ resolved[t] = {}
                   THEN [resolved EXCEPT ![t] = {sh}] ELSE resolved
  /\ lastKeys' = IF e = NoErr
                   THEN [lastKeys EXCEPT ![t] = {DOMAIN row}] ELSE lastKeys

Log(p, c) == calls' = [calls EXCEPT ![p] = Append(@, c)]

\* The ids of the files p's returned call created before it returned an error.
CreatedThenFailed(p) ==
  IF pc[p] = "done" /\ err[p] # NoErr
    THEN {calls[p][i].id : i \in {j \in DOMAIN calls[p] :
                                    calls[p][j].op = "create" /\ calls[p][j].ok}}
    ELSE {}

\* LogRow(title, description, row) up to the cache lookup of getSheet
\* (util.go:165-166, 109-112, and 162 on a hit).
LogRow(p, t, d, row) ==
  /\ pc[p] \in {"idle", "done"}
  /\ title' = [title EXCEPT ![p] = t]
  /\ description' = [description EXCEPT ![p] = d]
  /\ data' = [data EXCEPT ![p] = row]
  /\ files' = [files EXCEPT ![p] = <<>>]
  /\ fileId' = [fileId EXCEPT ![p] = 0]
  /\ calls' = [calls EXCEPT ![p] = <<>>]
  /\ cacheAtCall' = [cacheAtCall EXCEPT ![p] = sheets]
  /\ resolvedAtCall' = [resolvedAtCall EXCEPT ![p] = resolved[t]]
  /\ retryOf' = [retryOf EXCEPT ![p] =
                   IF title[p] = t THEN CreatedThenFailed(p) ELSE {}]
  /\ IF Exists(sheets, t)
       THEN Return(p, t, row, Lookup(sheets, t), NoErr)
       ELSE /\ pc' = [pc EXCEPT ![p] = "list"]
            /\ sheet' = [sheet EXCEPT ![p] = Lookup(sheets, t)]
            /\ err' = [err EXCEPT ![p] = NoErr]
            /\ UNCHANGED << resolved, lastKeys >>
  /\ UNCHANGED << driveFiles, headers, sheets, cvars, svars >>

\* gDrive.driveSrv.Files.List()...Do() and the branch on its result
\* (util.go:113-122, 132, 151, 157-159).
FilesList(p) ==
  /\ pc[p] = "list"
  /\ \/ /\ Log(p, Call("list", FALSE, title[p], 0, <<>>, <<>>))
        /\ Return(p, title[p], data[p], NilSheet, RemoteErr("list"))
        /\ UNCHANGED << files, fileId >>
     \/ LET m == ListMatches(driveFiles, title[p])
        IN  /\ Log(p, Call("list", TRUE, title[p], 0, <<>>, <<>>))
            /\ files' = [files EXCEPT ![p] = m]
            /\ CASE Branch(Len(m)) = "zero" ->
                      /\ pc' = [pc EXCEPT ![p] = "create"]
                      /\ UNCHANGED << fileId, sheet, err, resolved, lastKeys >>
                 [] Branch(Len(m)) = "one" ->
                      /\ pc' = [pc EXCEPT ![p] = "update1"]
                      /\ fileId' = [fileId EXCEPT ![p] = m[1]]
                      /\ UNCHANGED << sheet, err, resolved, lastKeys >>
                 [] OTHER ->
                      /\ Return(p, title[p], data[p], NilSheet,
                                AmbiguousErr(Len(m), title[p]))
                      /\ UNCHANGED fileId
  /\ UNCHANGED << driveFiles, headers, sheets, title, description, data,
                  cacheAtCall, resolvedAtCall, retryOf, cvars, svars >>

\* gDrive.driveSrv.Files.Create(&drive.File{Name: title, ...}).Do()
\* (util.go:133-140).
FilesCreate(p) ==
  /\ pc[p] = "create"
  /\ \/ /\ Log(p, Call("create", FALSE, title[p], 0, <<>>, <<>>))
        /\ Return(p, title[p], data[p], NilSheet, RemoteErr("create"))
        /\ UNCHANGED << driveFiles, fileId >>
     \/ /\ Len(driveFiles) < MaxFiles
        /\ driveFiles' = Append(driveFiles, title[p])
        /\ fileId' = [fileId EXCEPT ![p] = Len(driveFiles) + 1]
        /\ Log(p, Call("create", TRUE, title[p], Len(driveFiles) + 1, <<>>, <<>>))
        /\ pc' = [pc EXCEPT ![p] = "update0"]
        /\ UNCHANGED << sheet, err, resolved, lastKeys >>
  /\ UNCHANGED << headers, sheets, title, description, data, files,
                  cacheAtCall, resolvedAtCall, retryOf, cvars, svars >>

\* gDrive.updateSheetHead(fileID, title, description, data) and the check of
\* its error in getSheet (util.go:87-107, 141-144, 152-155).
updateSheetHead(p) ==
  /\ pc[p] \in {"update0", "update1"}
  /\ \E keys \in KeyOrders(DOMAIN data[p]) :
       LET values == HeaderValues(description[p], keys)
           range == HeaderRange(keys, values)
       IN  \E ok \in BOOLEAN :
             LET e == updateSheetHeadResult(IF ok THEN NoErr ELSE RemoteErr("update"))
             IN  /\ Log(p, Call("update", ok, "", fileId[p], range, values))
                 /\ headers' = IF ok
                                 THEN [headers EXCEPT ![fileId[p]] =
                                         [range |-> range, values |-> values]]
                                 ELSE headers
                 /\ IF e # NoErr
                      THEN Return(p, title[p], data[p], NilSheet, e)
                      ELSE /\ pc' = [pc EXCEPT ![p] =
                                       IF pc[p] = "update0" THEN "get0" ELSE "get1"]
                           /\ UNCHANGED << sheet, err, resolved, lastKeys >>
  /\ UNCHANGED << driveFiles, sheets, title, description, data, files, fileId,
                  cacheAtCall, resolvedAtCall, retryOf, cvars, svars >>

\* gDrive.sheetsSrv.Spreadsheets.Get(id).Do() and the return of getSheet:
\* the error is checked after a create (util.go:146-149) and dropped after a
\* reuse (util.go:156, 162).
SpreadsheetsGet(p) ==
  /\ pc[p] \in {"get0", "get1"}
  /\ \/ /\ Log(p, Call("get", TRUE, "", fileId[p], <<>>, <<>>))
        /\ Return(p, title[p], data[p], fileId[p], NoErr)
     \/ /\ Log(p, Call("get", FALSE, "", fileId[p], <<>>, <<>>))
        /\ IF pc[p] = "get0"
             THEN Return(p, title[p], data[p], NilSheet, RemoteErr("get"))
             ELSE Return(p, title[p], data[p], NilSheet, NoErr)
  /\ UNCHANGED << driveFiles, headers, sheets, title, description, data, files,
                  fileId, cacheAtCall, resolvedAtCall, retryOf, cvars, svars >>

\* The sequential program: one caller, one call at a time.
Next ==
  \E p \in SeqProcs :
    \/ \E t \in Titles, d \in Descriptions, row \in Rows : LogRow(p, t, d, row)
    \/ FilesList(p)
    \/ FilesCreate(p)
    \/ updateSheetHead(p)
    \/ SpreadsheetsGet(p)

Spec == Init /\ [][Next]_vars

\* Two goroutines sharing one GDrive, each calling LogRow once: the code takes
\* no lock, so their remote calls interleave freely.
LogRowOnce(p, t, d, row) ==
  /\ pc[p] = "idle"
  /\ LogRow(p, t, d, row)

NextConc ==
  \E p \in Procs :
    \/ \E t \in Titles, d \in Descriptions, row \in Rows : LogRowOnce(p, t, d, row)
    \/ FilesList(p)
    \/ FilesCreate(p)
    \/ updateSheetHead(p)
    \/ SpreadsheetsGet(p)

SpecConc == Init /\ [][NextConc]_vars

\* getSheet as a function of its receiver: gDrive.sheets is drawn from the maps
\* that send some titles to a spreadsheet of that title in the folder.
CachedMaps(folder) ==
  UNION {{f \in [S -> DOMAIN folder] : \A t \in S : folder[f[t]] = t} :
           S \in SUBSET Titles}

InitCached ==
  /\ driveFiles \in UNION {[1..n -> Titles] : n \in 0..MaxFiles}
  /\ headers = [id \in 1..MaxFiles |-> NoHeader]
  /\ sheets \in CachedMaps(driveFiles)
  /\ pc = [p \in Procs |-> "idle"]
  /\ title = [p \in Procs |-> "t1"]
  /\ description = [p \in Procs |-> "D"]
  /\ data = [p \in Procs |-> <<>>]
  /\ files = [p \in Procs |-> <<>>]
  /\ fileId = [p \in Procs |-> 0]
  /\ sheet = [p \in Procs |-> NilSheet]
  /\ err = [p \in Procs |-> NoErr]
  /\ calls = [p \in Procs |-> <<>>]
  /\ cacheAtCall = [p \in Procs |-> <<>>]
  /\ resolved = [t \in Titles |-> {}]
  /\ resolvedAtCall = [p \in Procs |-> {}]
  /\ lastKeys = [t \in Titles |-> {}]
  /\ retryOf = [p \in Procs |-> {}]
  /\ IdleCodec
  /\ IdleStartup

SpecCached == InitCached /\ [][Next]_vars

\* ----------------------------------------------------------------- Create

\* Largest number of folders the remote store holds before Create runs.
MaxFolders == 2

\* The folder name Create looks for and creates (util.go:207, 213), and a
\* name that only starts with it.
ReservedName == "k8sheets"
FolderNames == {"k8sheets", "k8sheets-old"}

\* What token.json may hold: a token saved earlier, nothing (no file), text
\* that does not decode, or a truncated or partly written file.
Tokens == {"tokCached", "tokWeb"}

\* file.Name == "k8sheets"
IsReservedPrefix(name) == name \in {"k8sheets", "k8sheets-old"}

IsReserved(name) == name = ReservedName

\* Files.List().Q("mimeType = '...folder'"): every folder, in id order.
FolderListing(fs) == [i \in DOMAIN fs |-> [id |-> i, name |-> fs[i]]]

\* for _, file := range files.Files { if file.Name == "k8sheets" { folder = file } }
\* (0 stands for the nil folder).
RECURSIVE FolderLoop(_, _, _)
FolderLoop(list, i, folder) ==
  IF i > Len(list) THEN folder
  ELSE FolderLoop(list, i + 1, IF IsReserved(list[i].name) THEN list[i].id ELSE folder)

\* if err != nil { log.Fatalf(...) } after ioutil.ReadFile (util.go:181-184).
AfterReadFileIgnoringError(ok) == "parse"

AfterReadFile(ok) == IF ok THEN "parse" ELSE "fatal"

\* tokenFromFile succeeds when the file is there and decodes (util.go:53-62).
TokenLoads(content) == content \in Tokens

SCall(op, ok) == [op |-> op, ok |-> ok]

Fatal(msg) ==
  /\ spc' = "fatal"
  /\ fatal' = msg

InitCreate ==
  /\ InitResolver
  /\ driveFiles = <<>>
  /\ IdleCodec
  /\ spc = "start"
  /\ credsRead = "no"
  /\ tokenFile \in {"missing", "malformed", "tokCached"}
  /\ tokLoad = "no"
  /\ tok = "none"
  /\ client = "none"
  /\ folders \in UNION {[1..n -> FolderNames] : n \in 0..MaxFolders}
  /\ folderList = <<>>
  /\ folderID = 0
  /\ slog = <<>>
  /\ fatal = ""

\* ioutil.ReadFile("credentials.json") (util.go:181-184).
ReadCredentials ==
  /\ spc = "start"
  /\ \E ok \in BOOLEAN :
       /\ credsRead' = IF ok THEN "ok" ELSE "failed"
       /\ spc' = AfterReadFile(ok)
       /\ fatal' = IF AfterReadFile(ok) = "fatal"
                     THEN "Unable to read client secret file" ELSE ""
  /\ UNCHANGED << tokenFile, tokLoad, tok, client, folders, folderList, folderID,
                  slog, rvars, cvars >>

\* google.ConfigFromJSON (util.go:187-190).
ParseConfig ==
  /\ spc = "parse"
  /\ \/ spc' = "token" /\ UNCHANGED fatal
     \/ Fatal("Unable to parse client secret file to config")
  /\ UNCHANGED << credsRead, tokenFile, tokLoad, tok, client, folders, folderList,
                  folderID, slog, rvars, cvars >>

\* getClient up to the branch on tokenFromFile's error (util.go:25-27).
TokenFromFile ==
  /\ spc = "token"
  /\ IF TokenLoads(tokenFile)
       THEN /\ tok' = tokenFile
            /\ tokLoad' = "ok"
            /\ spc' = "client"
       ELSE /\ tokLoad' = "failed"
            /\ spc' = "web"
            /\ UNCHANGED tok
  /\ UNCHANGED << credsRead, tokenFile, client, folders, folderList, folderID,
                  slog, fatal, rvars, cvars >>

\* getTokenFromWeb (util.go:35-50): the code is read from the terminal, then
\* exchanged for a token.
GetTokenFromWeb ==
  /\ spc = "web"
  /\ \/ /\ Fatal("Unable to read authorization code")
        /\ UNCHANGED << tok, slog >>
     \/ /\ slog' = Append(slog, SCall("exchange", FALSE))
        /\ Fatal("Unable to retrieve token from web")
        /\ UNCHANGED tok
     \/ /\ slog' = Append(slog, SCall("exchange", TRUE))
        /\ tok' = "tokWeb"
        /\ spc' = "save"
        /\ UNCHANGED fatal
  /\ UNCHANGED << credsRead, tokenFile, tokLoad, client, folders, folderList,
                  folderID, rvars, cvars >>

\* saveToken (util.go:65-73): the file is opened with O_TRUNC; the error of
\* Encode is not looked at.
SaveToken ==
  /\ spc = "save"
  /\ \/ /\ Fatal("Unable to cache oauth token")
        /\ UNCHANGED tokenFile
     \/ /\ tokenFile' = tok
        /\ spc' = "client"
        /\ UNCHANGED fatal
     \/ /\ tokenFile' = "partial"
        /\ spc' = "client"
        /\ UNCHANGED fatal
  /\ UNCHANGED << credsRead, tokLoad, tok, client, folders, folderList, folderID,
                  slog, rvars, cvars >>

\* return config.Client(ctx, tok), then drive.New(client) (util.go:31, 191-196).
NewClient ==
  /\ spc = "client"
  /\ client' = tok
  /\ \/ spc' = "list" /\ UNCHANGED fatal
     \/ Fatal("Unable to retrieve Drive client")
  /\ UNCHANGED << credsRead, tokenFile, tokLoad, tok, folders, folderList,
                  folderID, slog, rvars, cvars >>

\* driveSrv.Files.List() of the folders and the search for the reserved
\* name (util.go:198-211).
ListFolders ==
  /\ spc = "list"
  /\ \/ /\ slog' = Append(slog, SCall("listfolders", FALSE))
        /\ Fatal("Unable to retrieve files")
        /\ UNCHANGED << folderList, folderID >>
     \/ LET list == FolderListing(folders)
            folder == FolderLoop(list, 1, 0)
        IN  /\ slog' = Append(slog, SCall("listfolders", TRUE))
            /\ folderList' = list
            /\ folderID' = folder
            /\ spc' = IF folder = 0 THEN "create" ELSE "sheets"
            /\ UNCHANGED fatal
  /\ UNCHANGED << credsRead, tokenFile, tokLoad, tok, client, folders, rvars, cvars >>

\* driveSrv.Files.Create(&drive.File{Name: "k8sheets", ...}) (util.go:212-219).
CreateFolder ==
  /\ spc = "create"
  /\ \/ /\ slog' = Append(slog, SCall("createfolder", FALSE))
        /\ Fatal("Unable to create folder")
        /\ UNCHANGED << folders, folderID >>
     \/ /\ slog' = Append(slog, SCall("createfolder", TRUE))
        /\ folders' = Append(folders, ReservedName)
        /\ folderID' = Len(folders) + 1
        /\ spc' = "sheets"
        /\ UNCHANGED fatal
  /\ UNCHANGED << credsRead, tokenFile, tokLoad, tok, client, folderList, rvars, cvars >>

\* sheets.New(client) and the GDrive value returned (util.go:222-233).
SheetsNew ==
  /\ spc = "sheets"
  /\ \/ spc' = "ready" /\ UNCHANGED fatal
     \/ Fatal("Unable to retrieve Sheets client")
  /\ UNCHANGED << credsRead, tokenFile, tokLoad, tok, client, folders, folderList,
                  folderID, slog, rvars, cvars >>

NextCreate ==
  \/ ReadCredentials
  \/ ParseConfig
  \/ TokenFromFile
  \/ GetTokenFromWeb
  \/ SaveToken
  \/ NewClient
  \/ ListFolders
  \/ CreateFolder
  \/ SheetsNew

SpecCreate == InitCreate /\ [][NextCreate]_vars

\* ------------------------------------------------------------- codec runs

InitCodec ==
  /\ InitResolver
  /\ driveFiles = <<>>
  /\ cpc = "input"
  /\ column \in 1..MaxColumn
  /\ letter = <<>>
  /\ back = 0
  /\ IdleStartup

Encode ==
  /\ cpc = "input"
  /\ letter' = columnToLetter(column)
  /\ cpc' = "encoded"
  /\ UNCHANGED << column, back, rvars, svars >>

Decode ==
  /\ cpc = "encoded"
  /\ back' = letterToColumn(letter)
  /\ cpc' = "decoded"
  /\ UNCHANGED << column, letter, rvars, svars >>

NextCodec == Encode \/ Decode

SpecCodec == InitCodec /\ [][NextCodec]_vars

\* ------------------------------------------------------ reading the state

\* The operations of the remote calls p issued in its current call, in order.
Ops(p) == [i \in DOMAIN calls[p] |-> calls[p][i].op]

\* The positions of p's calls of operation op.
CallsOf(p, op) == {i \in DOMAIN calls[p] : calls[p][i].op = op}

\* No remote call of p's current call has failed.
AllOk(p) == \A i \in DOMAIN calls[p] : calls[p][i].ok

\* p's current call listed the folder successfully.
Listed(p) == calls[p] # <<>> /\ calls[p][1].op = "list" /\ calls[p][1].ok

\* p's call has returned; it has returned success.
Returned(p) == pc[p] = "done"
Succeeded(p) == pc[p] = "done" /\ err[p] = NoErr

\* The elements of a sequence.
Elems(s) == {s[i] : i \in DOMAIN s}

\* No title names two spreadsheets of the folder.
AtMostOnePerTitle == \A t \in Titles : Len(ListMatches(driveFiles, t)) <= 1

\* The step appends a remote call of operation op to p's log.
Issues(p, op) ==
  /\ Len(calls'[p]) = Len(calls[p]) + 1
  /\ calls'[p][Len(calls'[p])].op = op

ResolveOrder == << "list", "create", "update", "get" >>

\* ------------------------------------------------------------------ claims

\* C1: a successful LogRow of a title that an earlier LogRow has already
\* resolved successfully returns the handle the first one returned and lists
\* the remote folder zero times (the first resolution cached the handle).
C1_SecondResolveIsCacheHit ==
  \A p \in Procs :
    (Succeeded(p) /\ resolvedAtCall[p] # {}) =>
      /\ CallsOf(p, "list") = {}
      /\ {sheet[p]} = resolvedAtCall[p]

\* C2: every step keeps "at most one spreadsheet per title", and a create is
\* issued only after a successful listing of that title returned no match.
C2_AtMostOneSheetPerTitle ==
  [][ /\ AtMostOnePerTitle => AtMostOnePerTitle'
      /\ \A p \in Procs :
           Issues(p, "create") =>
             /\ Listed(p)
             /\ files[p] = <<>>
             /\ ListMatches(driveFiles, title[p]) = <<>> ]_vars

C2_Witness ==
  \E p \in Procs :
    /\ Succeeded(p)
    /\ \E i \in CallsOf(p, "create") : calls[p][i].ok
    /\ Len(driveFiles) = 2
    /\ AtMostOnePerTitle

\* C3: every LogRow that returns success has issued a successful header write
\* whose row 2 holds exactly the keys of its row, and between calls the header
\* of a title's spreadsheet holds the keys of the last successful LogRow of
\* that title.
C3_HeaderFollowsEverySuccess ==
  /\ \A p \in Procs :
       Succeeded(p) =>
         \E i \in CallsOf(p, "update") :
           /\ calls[p][i].ok
           /\ Len(calls[p][i].values) = 2
           /\ Elems(calls[p][i].values[2]) = DOMAIN data[p]
           /\ Len(calls[p][i].values[2]) = Cardinality(DOMAIN data[p])
  /\ (\A p \in Procs : pc[p] \in {"idle", "done"}) =>
       \A t \in Titles :
         lastKeys[t] # {} =>
           /\ Len(ListMatches(driveFiles, t)) = 1
           /\ \A id \in Elems(ListMatches(driveFiles, t)) :
                /\ headers[id] # NoHeader
                /\ lastKeys[t] = {Elems(headers[id].values[2])}

\* A later successful call of an already resolved title, with other keys.
C3_Witness ==
  \E p \in Procs :
    /\ Succeeded(p)
    /\ resolvedAtCall[p] # {} /\ resolvedAtCall[p] # {NilSheet}
    /\ DOMAIN data[p] = {"a", "b"}
    /\ \E id \in Elems(ListMatches(driveFiles, title[p])) :
         Elems(headers[id].values[2]) = {"a", "b"}

\* C4: on a cache miss whose listing returns no match, the remote calls are
\* list, create, header write, metadata fetch, in this order and nothing else
\* while none fails; the create names the title inside the folder, and the
\* write and the fetch address the created id.
C4_ZeroMatchCallOrder ==
  \A p \in Procs :
    (Listed(p) /\ files[p] = <<>> /\ AllOk(p) /\ ~Exists(cacheAtCall[p], title[p])) =>
      /\ Ops(p) = SubSeq(ResolveOrder, 1, Len(calls[p]))
      /\ Returned(p) => Len(calls[p]) = 4
      /\ Len(calls[p]) >= 2 =>
           /\ calls[p][2].name = title[p]
           /\ calls[p][2].id \in DOMAIN driveFiles
           /\ driveFiles[calls[p][2].id] = title[p]
      /\ \A i \in DOMAIN calls[p] : i >= 3 => calls[p][i].id = calls[p][2].id

C4_Witness ==
  \E p \in Procs :
    /\ Succeeded(p)
    /\ files[p] = <<>>
    /\ Ops(p) = ResolveOrder
    /\ AllOk(p)
    /\ sheet[p] = calls[p][2].id

\* C5: on a cache miss whose listing returns exactly one match, with no remote
\* call failing, the call issues no create and exactly one header write, and
\* that write addresses the matched file.
C5_OneMatchReuses ==
  \A p \in Procs :
    (Returned(p) /\ Listed(p) /\ Len(files[p]) = 1 /\ AllOk(p)) =>
      /\ CallsOf(p, "create") = {}
      /\ Cardinality(CallsOf(p, "update")) = 1
      /\ \A i \in CallsOf(p, "update") : calls[p][i].id = files[p][1]

C5_Witness ==
  \E p \in Procs :
    /\ Succeeded(p)
    /\ Len(files[p]) = 1
    /\ AllOk(p)
    /\ Ops(p) = << "list", "update", "get" >>
    /\ headers[files[p][1]] # NoHeader

\* C6: on a cache miss whose listing returns two or more matches, the call
\* ends right there with the ambiguity error carrying the match count: no
\* create, no header write, no metadata fetch, and no handle.
C6_AmbiguousTitleFails ==
  \A p \in Procs :
    (Listed(p) /\ Len(files[p]) >= 2) =>
      /\ Returned(p)
      /\ err[p] = AmbiguousErr(Len(files[p]), title[p])
      /\ err[p].count = Len(ListMatches(driveFiles, title[p]))
      /\ Ops(p) = << "list" >>
      /\ sheet[p] = NilSheet

C6_Witness ==
  \E p \in Procs :
    /\ Returned(p)
    /\ Len(files[p]) = 2
    /\ err[p].kind = "ambiguous"
    /\ err[p].count = 2

\* C7: a LogRow in which a remote call failed returns a non-nil error.
C7_RemoteFailureIsReported ==
  \A p \in Procs :
    (Returned(p) /\ ~AllOk(p)) => err[p] # NoErr

\* C8: on a cache miss LogRow returns success only if the header write of that
\* call succeeded, and when it returns an error the cache is as it was when
\* the call began.
C8_NoPartialSuccess ==
  \A p \in Procs :
    /\ (Succeeded(p) /\ ~Exists(cacheAtCall[p], title[p])) =>
         \E i \in CallsOf(p, "update") : calls[p][i].ok
    /\ (Returned(p) /\ err[p] # NoErr) => sheets = cacheAtCall[p]

C8_Witness ==
  \E p \in Procs :
    /\ Returned(p)
    /\ err[p] = RemoteErr("update")
    /\ \E i \in CallsOf(p, "update") : ~calls[p][i].ok
    /\ sheets = cacheAtCall[p]

\* C9: the header write of a row with k >= 1 keys targets the range from A1 to
\* the k-th column letter in row 2, with row 1 = [description] and row 2 holding
\* every key of the row exactly once.
C9_HeaderRangeEndsAtKthColumn ==
  \A p \in Procs :
    \A i \in CallsOf(p, "update") :
      LET k == Cardinality(DOMAIN data[p])
      IN  k >= 1 =>
            /\ calls[p][i].range = << "A", "1", ":", Alphabet[k], "2" >>
            /\ calls[p][i].values[1] = << description[p] >>
            /\ Len(calls[p][i].values[2]) = k
            /\ Elems(calls[p][i].values[2]) = DOMAIN data[p]

\* C10: letterToColumn(columnToLetter(n)) = n for every n in 1..MaxColumn.
C10_CodecRoundTrip ==
  cpc = "decoded" => back = column

C10_Witness ==
  /\ cpc = "decoded"
  /\ column = 703
  /\ letter = << "A", "A", "A" >>
  /\ back = 703

\* The conventional column label, computed from its definition: the labels
\* of length len are the 26^len numbers after the shorter ones, in the order
\* of their len-digit base-26 numerals over A..Z.
RECURSIVE ShorterLabels(_)
ShorterLabels(len) == IF len <= 1 THEN 0 ELSE Pow26(len - 1) + ShorterLabels(len - 1)

RECURSIVE LabelLength(_, _)
LabelLength(n, len) ==
  IF n <= ShorterLabels(len + 1) THEN len ELSE LabelLength(n, len + 1)

ReferenceLabel(n) ==
  LET len == LabelLength(n, 1)
      m == n - 1 - ShorterLabels(len)
  IN  [i \in 1..len |-> Alphabet[((m \div Pow26(len - i)) % 26) + 1]]

\* C11: columnToLetter(n) is the conventional bijective base-26 column label
\* for every n in 1..MaxColumn; 1 is "A", 26 is "Z", 27 is "AA", 702 is "ZZ".
C11_ColumnToLetterIsConventional ==
  cpc \in {"encoded", "decoded"} =>
    /\ letter = ReferenceLabel(column)
    /\ column = 1 => letter = << "A" >>
    /\ column = 26 => letter = << "Z" >>
    /\ column = 27 => letter = << "A", "A" >>
    /\ column = 702 => letter = << "Z", "Z" >>

C11_Witness ==
  /\ cpc = "encoded"
  /\ column = 702
  /\ letter = << "Z", "Z" >>

\* The cells of a header write.
Cells(values) == UNION {Elems(values[r]) : r \in DOMAIN values}

\* The values of a row, which LogRow is given and does not send.
ValuesOf(row) == UNION {Elems(row[k]) : k \in DOMAIN row}

\* C12: the only cell write of LogRow is one update of the Header Block: the
\* range starts at A1 and ends in row 2, the values are the description and
\* keys of the row, and no value of the row is sent; no other remote call
\* carries cell values.
C12_HeaderOnlySync ==
  \A p \in Procs :
    /\ Cardinality(CallsOf(p, "update")) <= 1
    /\ \A i \in DOMAIN calls[p] :
         LET c == calls[p][i]
         IN  IF c.op = "update"
               THEN /\ SubSeq(c.range, 1, 3) = << "A", "1", ":" >>
                    /\ c.range[Len(c.range)] = "2"
                    /\ Len(c.values) = 2
                    /\ Cells(c.values) \subseteq {description[p]} \cup DOMAIN data[p]
                    /\ Cells(c.values) \cap ValuesOf(data[p]) = {}
               ELSE /\ c.op \in {"list", "create", "get"}
                    /\ c.range = <<>>
                    /\ c.values = <<>>

C12_Witness ==
  \E p \in Procs :
    /\ Succeeded(p)
    /\ DOMAIN data[p] = {"a", "b"}
    /\ ValuesOf(data[p]) = {"v"}
    /\ \E i \in CallsOf(p, "update") : calls[p][i].ok

\* C18: the header write of a row with k >= 0 keys requests the range
\* "A1:" + (the letter of column 1 + k) + "2" and sends exactly two rows,
\* [description] and the k keys.
C18_HeaderRangeCoversOnePlusK ==
  \A p \in Procs :
    \A i \in CallsOf(p, "update") :
      LET k == Cardinality(DOMAIN data[p])
      IN  /\ calls[p][i].range = << "A", "1", ":", Alphabet[1 + k], "2" >>
          /\ Len(calls[p][i].values) = 2
          /\ calls[p][i].values[1] = << description[p] >>
          /\ Len(calls[p][i].values[2]) = k
          /\ Elems(calls[p][i].values[2]) = DOMAIN data[p]

C18_Witness ==
  \E p \in Procs :
    \E i \in CallsOf(p, "update") :
      /\ data[p] = <<>>
      /\ calls[p][i].ok
      /\ calls[p][i].range = << "A", "1", ":", "A", "2" >>
      /\ calls[p][i].values = << << description[p] >>, <<>> >>

\* C20: a call whose create succeeded and whose header write or metadata
\* fetch failed returns an error and leaves the created spreadsheet as the
\* only one of its title; the next call of the same title finds exactly that
\* match, issues no create and writes the header to it.
C20_FailedCreateIsReusedNotRolledBack ==
  \A p \in Procs :
    /\ \A id \in CreatedThenFailed(p) : ListMatches(driveFiles, title[p]) = << id >>
    /\ (Returned(p) /\ ~AllOk(p) /\ CallsOf(p, "create") # {} /\ calls[p][2].ok) =>
         CreatedThenFailed(p) = {calls[p][2].id}
    /\ \A id \in retryOf[p] :
         /\ ListMatches(driveFiles, title[p]) = << id >>
         /\ Listed(p) => files[p] = << id >>
         /\ CallsOf(p, "create") = {}
         /\ \A i \in CallsOf(p, "update") : calls[p][i].id = id

C20_Witness ==
  \E p \in Procs :
    /\ Succeeded(p)
    /\ retryOf[p] # {}
    /\ Ops(p) = << "list", "update", "get" >>
    /\ AllOk(p)
    /\ \A id \in retryOf[p] : headers[id] # NoHeader /\ sheet[p] = id

\* C13: of two calls for the same title that run concurrently at most one
\* issues a create, and they never leave two spreadsheets of that title that
\* they created.
C13_ConcurrentResolveExcluded ==
  \A p, q \in Procs :
    (p # q /\ pc[p] # "idle" /\ pc[q] # "idle" /\ title[p] = title[q]) =>
      ~(CallsOf(p, "create") # {} /\ CallsOf(q, "create") # {})

\* C17: a call that finds its title in the cache returns the cached handle
\* with no error, has issued no remote call, and leaves the cache as it was.
C17_CacheHitIsLocal ==
  \A p \in Procs :
    (pc[p] # "idle" /\ title[p] \in DOMAIN cacheAtCall[p]) =>
      /\ Returned(p)
      /\ err[p] = NoErr
      /\ sheet[p] = cacheAtCall[p][title[p]]
      /\ calls[p] = <<>>
      /\ sheets = cacheAtCall[p]

C17_Witness ==
  \E p \in Procs :
    /\ Returned(p)
    /\ title[p] = "t2"
    /\ DOMAIN cacheAtCall[p] = {"t2"}
    /\ sheet[p] = 2
    /\ calls[p] = <<>>

\* The positions of Create's remote calls of operation op.
SOps(op) == {i \in DOMAIN slog : slog[i].op = op}

\* Create has listed the folders successfully.
ListedFolders == \E i \in SOps("listfolders") : slog[i].ok

\* The ids of the listed folders named exactly the reserved name.
ReservedMatches ==
  {folderList[i].id : i \in {j \in DOMAIN folderList : folderList[j].name = "k8sheets"}}

MinOf(S) == CHOOSE x \in S : \A y \in S : x <= y

\* C14: Create issues a folder create exactly when its listing holds no
\* folder named "k8sheets"; when the listing holds exactly one, that folder's
\* id is the folder handle and nothing is created.
C14_FolderCreatedIffAbsent ==
  /\ SOps("createfolder") # {} => (ListedFolders /\ ReservedMatches = {})
  /\ (ListedFolders /\ ReservedMatches = {} /\ spc # "create") =>
       Cardinality(SOps("createfolder")) = 1
  /\ (ListedFolders /\ Cardinality(ReservedMatches) = 1) =>
       /\ ReservedMatches = {folderID}
       /\ SOps("createfolder") = {}
       /\ Len(folders) = Len(folderList)

C14_Witness ==
  /\ spc = "ready"
  /\ Len(folderList) = 1
  /\ folderList[1].name = "k8sheets-old"
  /\ \E i \in SOps("createfolder") : slog[i].ok
  /\ folderID = 2
  /\ folders = << "k8sheets-old", "k8sheets" >>

\* C15: when credentials.json cannot be read, Create ends with the fatal
\* error of the secret file, having issued no remote call and built no client.
C15_MissingSecretIsFatalFirst ==
  credsRead = "failed" =>
    /\ spc = "fatal"
    /\ fatal = "Unable to read client secret file"
    /\ slog = <<>>
    /\ tokLoad = "no"
    /\ client = "none"
    /\ folderID = 0

C15_Witness ==
  /\ credsRead = "failed"
  /\ spc = "fatal"
  /\ fatal = "Unable to read client secret file"
  /\ slog = <<>>

\* C16: getClient performs the authorization exchange exactly when loading
\* token.json failed; the client is then returned only after token.json holds
\* the obtained token; a failed exchange yields no client.
C16_ExchangeIffLoadFailsThenSaved ==
  /\ SOps("exchange") # {} => tokLoad = "failed"
  /\ client # "none" =>
       ((\E i \in SOps("exchange") : slog[i].ok) <=> tokLoad = "failed")
  /\ (client # "none" /\ tokLoad = "failed") => tokenFile = client
  /\ (\E i \in SOps("exchange") : ~slog[i].ok) => client = "none"

\* C19: when the listing holds more than one folder named "k8sheets", Create
\* takes the first of them in listing order as the folder handle or fails with
\* an ambiguity error, and creates no folder.
C19_DuplicateFolderFirstWins ==
  (ListedFolders /\ Cardinality(ReservedMatches) >= 2) =>
    /\ \/ folderID = MinOf(ReservedMatches)
       \/ spc = "fatal" /\ fatal = "ambiguous folder name"
    /\ SOps("createfolder") = {}
    /\ Len(folders) = Len(folderList)

====
